---- MODULE Spec2Model ----
(***************************************************************************)
(* Invoice validation pipeline of invoice-chain-agent:                     *)
(*   backend/utils/invoice_validator.py  InvoiceValidator                  *)
(*   backend/agents/invoice_agent.py     process_invoice                   *)
(*   backend/utils/openai_explain.py     explain_validation                *)
(*   blockchain/integration.py           BlockchainIntegration.log_invoice *)
(*                                                                         *)
(* Strings are TLA+ strings handled character by character, amounts are    *)
(* whole dollars, dates are calendar days, the wall clock is a variable.   *)
(***************************************************************************)
EXTENDS Integers, Sequences, FiniteSets, TLC

(***************************************************************************)
(* Text primitives (Python str methods and the regular expressions used)   *)
(***************************************************************************)
Char(s, i) == SubSeq(s, i, i)

UpperChars == "ABCDEFGHIJKLMNOPQRSTUVWXYZ"

LowerChars == "abcdefghijklmnopqrstuvwxyz"

Digits == {"0", "1", "2", "3", "4", "5", "6", "7", "8", "9"}

UpperSet == {Char(UpperChars, i) : i \in 1..26}

\* str.lower() on one character
LowerChar(c) ==
    IF c \in UpperSet
    THEN Char(LowerChars, CHOOSE i \in 1..26 : Char(UpperChars, i) = c)
    ELSE c

RECURSIVE Lower(_)
\* str.lower()
Lower(s) == IF s = "" THEN "" ELSE LowerChar(Head(s)) \o Lower(Tail(s))

\* the Python test  needle in hay
Contains(hay, needle) ==
    \E i \in 1..(Len(hay) - Len(needle) + 1) :
        SubSeq(hay, i, i + Len(needle) - 1) = needle

RECURSIVE SplitFrom(_, _)
\* str.split(): the maximal runs of non-blank characters; cur is the token
\* being read
SplitFrom(s, cur) ==
    IF s = "" THEN (IF cur = "" THEN << >> ELSE << cur >>)
    ELSE IF Head(s) = " "
         THEN (IF cur = "" THEN SplitFrom(Tail(s), "")
                           ELSE << cur >> \o SplitFrom(Tail(s), ""))
         ELSE SplitFrom(Tail(s), cur \o Head(s))

Split(s) == SplitFrom(s, "")

RECURSIVE Join(_, _)
\* sep.join(list)
Join(sep, list) ==
    IF Len(list) = 0 THEN ""
    ELSE IF Len(list) = 1 THEN list[1]
    ELSE list[1] \o sep \o Join(sep, Tail(list))

AllDigits(s) == \A i \in 1..Len(s) : Char(s, i) \in Digits

DigitVal(c) == CHOOSE n \in 0..9 : ToString(n) = c

RECURSIVE ParseNat(_)
\* the value of a non-empty string of decimal digits
ParseNat(s) ==
    IF Len(s) = 1 THEN DigitVal(s)
    ELSE 10 * ParseNat(SubSeq(s, 1, Len(s) - 1)) + DigitVal(Char(s, Len(s)))

\* re.match(r'^[A-Z0-9\-]{3,20}$', invoice_id)
MatchInvoiceId(s) ==
    /\ Len(s) >= 3
    /\ Len(s) <= 20
    /\ \A i \in 1..Len(s) : Char(s, i) \in UpperSet \cup Digits \cup {"-"}

\* re.match(r'^\d{2}-\d{7}$', tax_id)
MatchTaxId(s) ==
    /\ Len(s) = 10
    /\ AllDigits(SubSeq(s, 1, 2))
    /\ Char(s, 3) = "-"
    /\ AllDigits(SubSeq(s, 4, 10))

\* re.search(r'\d{3,}', vendor_name)
HasDigitRun(s) ==
    \E i \in 1..(Len(s) - 2) : AllDigits(SubSeq(s, i, i + 2))

(***************************************************************************)
(* Python values: an amount is a number [num |-> n] or a string            *)
(* [str |-> s]; float() of it is [ok |-> TRUE, v |-> n] or the exception.  *)
(***************************************************************************)
IsNum(a) == DOMAIN a = {"num"}

\* float(str) for the whole-dollar spellings  [+-]digits[.000]
ParseFloatStr(s) ==
    LET neg  == s # "" /\ Head(s) = "-"
        body == IF s # "" /\ Head(s) \in {"-", "+"} THEN Tail(s) ELSE s
        dots == {i \in 1..Len(body) : Char(body, i) = "."}
        ip   == IF dots = {} THEN body
                ELSE SubSeq(body, 1, (CHOOSE i \in dots : TRUE) - 1)
        fp   == IF dots = {} THEN ""
                ELSE SubSeq(body, (CHOOSE i \in dots : TRUE) + 1, Len(body))
    IN  IF /\ Cardinality(dots) <= 1
           /\ ip # ""
           /\ AllDigits(ip)
           /\ \A i \in 1..Len(fp) : Char(fp, i) = "0"
        THEN [ok |-> TRUE, v |-> IF neg THEN 0 - ParseNat(ip) ELSE ParseNat(ip)]
        ELSE [ok |-> FALSE, exc |-> "ValueError",
              msg |-> "could not convert string to float: '" \o s \o "'"]

\* float(x)
ToFloat(a) == IF IsNum(a) THEN [ok |-> TRUE, v |-> a.num] ELSE ParseFloatStr(a.str)

\* Python truthiness of a text field value
TruthyStr(s) == s # ""

\* Python truthiness of an amount value (0 and '' are falsy)
TruthyAmount(a) == IF IsNum(a) THEN a.num # 0 ELSE a.str # ""

\* f"{n:,.2f}" for a whole number n >= 0
RECURSIVE Grouped(_)
Grouped(s) ==
    IF Len(s) <= 3 THEN s
    ELSE Grouped(SubSeq(s, 1, Len(s) - 3)) \o "," \o SubSeq(s, Len(s) - 2, Len(s))

FormatMoneyGrouped(n) == Grouped(ToString(n)) \o ".00"

\* f"{n:.2f}" for a whole number n
FormatMoney(n) ==
    (IF n < 0 THEN "-" \o ToString(0 - n) ELSE ToString(n)) \o ".00"

(***************************************************************************)
(* Calendar: datetime.strptime(s, '%Y-%m-%d'), weekday(), comparisons     *)
(***************************************************************************)
IsLeap(y) == (y % 4 = 0 /\ y % 100 # 0) \/ y % 400 = 0

DaysInMonth(y, m) ==
    IF m = 2 THEN (IF IsLeap(y) THEN 29 ELSE 28)
    ELSE IF m \in {4, 6, 9, 11} THEN 30 ELSE 31

\* positions of the '-' separators of s
Dashes(s) == {i \in 1..Len(s) : Char(s, i) = "-"}

\* datetime.strptime(s, '%Y-%m-%d'): a four-digit year, a one- or two-digit
\* month and day, a day that exists; otherwise ValueError with its message.
\* The format has no time directive, so the result is midnight of that day.
Strptime(s) ==
    LET ds   == Dashes(s)
        d1   == CHOOSE i \in ds : \A j \in ds : i <= j
        d2   == CHOOSE i \in ds : \A j \in ds : i >= j
        ys   == SubSeq(s, 1, d1 - 1)
        ms   == SubSeq(s, d1 + 1, d2 - 1)
        dd   == SubSeq(s, d2 + 1, Len(s))
        shape == /\ Cardinality(ds) = 2
                 /\ Len(ys) = 4 /\ AllDigits(ys)
                 /\ Len(ms) \in {1, 2} /\ AllDigits(ms)
                 /\ Len(dd) \in {1, 2} /\ AllDigits(dd)
                 /\ ParseNat(ms) \in 1..12
                 /\ ParseNat(dd) \in 1..31
                 /\ ParseNat(ys) >= 1
        mismatch == [ok |-> FALSE, exc |-> "ValueError",
                     msg |-> "time data '" \o s \o "' does not match format '%Y-%m-%d'"]
    IN  IF ~shape THEN mismatch
        ELSE IF ParseNat(dd) > DaysInMonth(ParseNat(ys), ParseNat(ms))
        THEN [ok |-> FALSE, exc |-> "ValueError",
              msg |-> "day is out of range for month"]
        ELSE [ok |-> TRUE, y |-> ParseNat(ys), m |-> ParseNat(ms), d |-> ParseNat(dd),
              hour |-> 0, minute |-> 0]

\* days since 1970-01-01 of the civil date y-m-d (datetime ordering)
DayNumber(y, m, d) ==
    LET yy  == IF m <= 2 THEN y - 1 ELSE y
        era == yy \div 400
        yoe == yy - era * 400
        mp  == (m + 9) % 12
        doy == (153 * mp + 2) \div 5 + d - 1
        doe == yoe * 365 + yoe \div 4 - yoe \div 100 + doy
    IN  era * 146097 + doe - 719468

DayOf(t) == DayNumber(t.y, t.m, t.d)

\* datetime.weekday(): Monday is 0, Sunday is 6
Weekday(t) == (DayOf(t) + 3) % 7

\* A reading of datetime.now(): the calendar day and whether the time of day
\* is past 00:00:00.000000 (tod = 1) or exactly midnight (tod = 0).
\* invoice_date > datetime.now(), invoice_date being midnight of its day
IsFuture(t, now) == DayOf(t) > DayOf(now)

\* every date before today taken as too old
IsOlderThanToday(t, now) == DayOf(t) < DayOf(now)

\* invoice_date < datetime.now() - timedelta(days=365)
IsOlderThanYear(t, now) ==
    \/ DayOf(t) < DayOf(now) - 365
    \/ (DayOf(t) = DayOf(now) - 365 /\ now.tod > 0)

(***************************************************************************)
(* The invoice mapping (a Python dict: a function whose DOMAIN is the set  *)
(* of keys present) and the reference data                                 *)
(***************************************************************************)
\* dict.get(key, default)
Get(dict, key, default) == IF key \in DOMAIN dict THEN dict[key] ELSE default

\* InvoiceValidator.__init__: self.fraud_keywords
fraud_keywords ==
    << "urgent", "immediate payment", "act now", "limited time",
       "wire transfer only", "cash only", "bitcoin", "cryptocurrency" >>

\* issues.append(issue) under the condition cond
Append1(list, cond, issue) == IF cond THEN Append(list, issue) ELSE list

(***************************************************************************)
(* Stage 1: InvoiceValidator._basic_validation                             *)
(***************************************************************************)
required_fields == << "invoice_id", "vendor_name", "tax_id", "amount", "date" >>

\* not invoice_data.get(field)
FieldMissing(invoice_data, field) ==
    IF field \notin DOMAIN invoice_data THEN TRUE
    ELSE IF field = "amount" THEN ~TruthyAmount(invoice_data[field])
    ELSE ~TruthyStr(invoice_data[field])

MissingIssues(invoice_data) ==
    LET miss(f) == FieldMissing(invoice_data, f)
        fs == SelectSeq(required_fields, miss)
    IN  [i \in 1..Len(fs) |-> "Missing required field: " \o fs[i]]

AmountIssues(invoice_data) ==
    LET amount == ToFloat(Get(invoice_data, "amount", [num |-> 0]))
    IN  IF ~amount.ok THEN << "Invalid amount format" >>
        ELSE IF amount.v <= 0 THEN << "Invoice amount must be positive" >>
        ELSE IF amount.v > 100000
        THEN << "CRITICAL: Invoice amount exceeds $100,000 threshold" >>
        ELSE << >>

DateIssues(invoice_data, now) ==
    LET invoice_date == Strptime(Get(invoice_data, "date", ""))
    IN  IF ~invoice_date.ok THEN << "Invalid date format (expected YYYY-MM-DD)" >>
        ELSE IF IsFuture(invoice_date, now)
        THEN << "Invoice date cannot be in the future" >>
        ELSE IF IsOlderThanYear(invoice_date, now)
        THEN << "Invoice date is more than 1 year old" >>
        ELSE << >>

\* the checks stopping at the required-fields loop when a field is missing
BasicValidationStopsEarly(invoice_data, now) ==
    IF Len(MissingIssues(invoice_data)) > 0
    THEN MissingIssues(invoice_data)
    ELSE LET i1 == AmountIssues(invoice_data)
             i2 == Append1(i1, ~MatchInvoiceId(Get(invoice_data, "invoice_id", "")),
                           "Invalid invoice ID format")
             i3 == Append1(i2, ~MatchTaxId(Get(invoice_data, "tax_id", "")),
                           "Invalid tax ID format (expected XX-XXXXXXX)")
         IN  i3 \o DateIssues(invoice_data, now)

\* _basic_validation(invoice_data), datetime.now() reading now
BasicValidation(invoice_data, now) ==
    LET i1 == MissingIssues(invoice_data) \o AmountIssues(invoice_data)
        i2 == Append1(i1, ~MatchInvoiceId(Get(invoice_data, "invoice_id", "")),
                      "Invalid invoice ID format")
        i3 == Append1(i2, ~MatchTaxId(Get(invoice_data, "tax_id", "")),
                      "Invalid tax ID format (expected XX-XXXXXXX)")
    IN  i3 \o DateIssues(invoice_data, now)

(***************************************************************************)
(* Stage 2: InvoiceValidator._erp_validation                               *)
(* A stage returns [exc |-> "none", ...] or [exc |-> the exception raised] *)
(***************************************************************************)
\* the blacklist test requiring both the name and the tax id of one entry
BlacklistMatchBoth(vendor, vendor_name, tax_id) ==
    /\ Lower(vendor.vendor_name) = Lower(vendor_name)
    /\ vendor.tax_id = tax_id

\* vendor['vendor_name'].lower() == vendor_name.lower() or vendor['tax_id'] == tax_id
BlacklistMatch(vendor, vendor_name, tax_id) ==
    \/ Lower(vendor.vendor_name) = Lower(vendor_name)
    \/ vendor.tax_id = tax_id

\* the blacklist never consulted
IsBlacklistedNever(erp_data, vendor_name, tax_id) ==
    \E i \in 1..Len(erp_data.blacklisted_vendors) : FALSE

\* any(... for vendor in self.erp_data['blacklisted_vendors'])
IsBlacklisted(erp_data, vendor_name, tax_id) ==
    \E i \in 1..Len(erp_data.blacklisted_vendors) :
        BlacklistMatch(erp_data.blacklisted_vendors[i], vendor_name, tax_id)

\* the issues of a matched approved vendor (credit limit, risk level, status)
ApprovedVendorIssues(approved_vendor, amount) ==
    LET i1 == Append1(<< >>, amount > approved_vendor.credit_limit,
                "Invoice amount exceeds vendor credit limit of $"
                    \o FormatMoneyGrouped(approved_vendor.credit_limit))
    IN  IF approved_vendor.risk_level = "high"
        THEN Append(i1, "WARNING: High-risk vendor requires additional approval")
        ELSE IF approved_vendor.status # "approved"
        THEN Append(i1, "Vendor status is '" \o approved_vendor.status
                            \o "', not fully approved")
        ELSE i1

\* the approved-vendor part: issues and details
VendorCheck(erp_data, vendor_name, tax_id, amount) ==
    LET match(v) == Lower(v.vendor_name) = Lower(vendor_name) /\ v.tax_id = tax_id
        found == SelectSeq(erp_data.approved_vendors, match)
    IN  IF Len(found) = 0
        THEN [issues  |-> << "Vendor not found in approved vendor list" >>,
              details |-> ("vendor_approved" :> FALSE)]
        ELSE LET approved_vendor == found[1]   \* the loop breaks at the first
             IN  [issues  |-> ApprovedVendorIssues(approved_vendor, amount),
                  details |-> ("vendor_approved" :> TRUE)
                              @@ ("vendor_risk_level" :> approved_vendor.risk_level)]

\* the purchase-order part: issues and details, or the ValueError of strptime
PurchaseOrderCheck(erp_data, invoice_data, vendor_name, amount) ==
    LET match(po) == /\ Lower(po.vendor_name) = Lower(vendor_name)
                     /\ po.status = "open"
                     /\ po.total_amount = amount   \* abs(difference) < 0.01
        found == SelectSeq(erp_data.purchase_orders, match)
    IN  IF Len(found) = 0
        THEN [exc |-> "none",
              issues  |-> << "No matching open purchase order found" >>,
              details |-> ("po_matched" :> FALSE)]
        ELSE LET matching_po  == found[1]   \* the loop breaks at the first
                 po_date      == Strptime(matching_po.created_date)
                 invoice_date == Strptime(Get(invoice_data, "date", ""))
             IN  IF ~po_date.ok THEN [exc |-> po_date.exc, msg |-> po_date.msg]
                 ELSE IF ~invoice_date.ok THEN [exc |-> invoice_date.exc, msg |-> invoice_date.msg]
                 ELSE [exc |-> "none",
                       issues  |-> Append1(<< >>, DayOf(invoice_date) < DayOf(po_date),
                                      "Invoice date is before purchase order date"),
                       details |-> ("po_matched" :> TRUE)
                                   @@ ("po_number" :> matching_po.po_number)]

\* the blacklist branch without its return
ErpValidationNoReturn(invoice_data, erp_data) ==
    LET vendor_name == Get(invoice_data, "vendor_name", "")
        tax_id      == Get(invoice_data, "tax_id", "")
        amount      == ToFloat(Get(invoice_data, "amount", [num |-> 0]))
        black       == IsBlacklisted(erp_data, vendor_name, tax_id)
        vc  == VendorCheck(erp_data, vendor_name, tax_id, amount.v)
        poc == PurchaseOrderCheck(erp_data, invoice_data, vendor_name, amount.v)
    IN  IF ~amount.ok THEN [exc |-> amount.exc, msg |-> amount.msg]
        ELSE IF poc.exc # "none" THEN [exc |-> poc.exc, msg |-> poc.msg]
        ELSE [exc |-> "none",
              issues  |-> Append1(<< >>, black,
                                  "CRITICAL: Vendor is blacklisted in ERP system")
                          \o vc.issues \o poc.issues,
              details |-> ("blacklisted" :> black) @@ vc.details @@ poc.details]

\* _erp_validation(invoice_data)
ErpValidation(invoice_data, erp_data) ==
    LET vendor_name == Get(invoice_data, "vendor_name", "")
        tax_id      == Get(invoice_data, "tax_id", "")
        amount      == ToFloat(Get(invoice_data, "amount", [num |-> 0]))
    IN  IF ~amount.ok THEN [exc |-> amount.exc, msg |-> amount.msg]
        ELSE IF IsBlacklisted(erp_data, vendor_name, tax_id)
        THEN [exc |-> "none",
              issues  |-> << "CRITICAL: Vendor is blacklisted in ERP system" >>,
              details |-> ("blacklisted" :> TRUE)]
        ELSE LET vc == VendorCheck(erp_data, vendor_name, tax_id, amount.v)
                 poc == PurchaseOrderCheck(erp_data, invoice_data, vendor_name, amount.v)
             IN  IF poc.exc # "none" THEN [exc |-> poc.exc, msg |-> poc.msg]
                 ELSE [exc |-> "none",
                       issues  |-> vc.issues \o poc.issues,
                       details |-> ("blacklisted" :> FALSE) @@ vc.details
                                   @@ poc.details]

(***************************************************************************)
(* Stage 3: InvoiceValidator._contextual_validation                        *)
(***************************************************************************)
\* the heuristics appending their issues before the parse failure is met
ContextualValidationKeepsIssues(invoice_data, now) ==
    LET amount       == ToFloat(Get(invoice_data, "amount", [num |-> 0]))
        vendor_name  == Get(invoice_data, "vendor_name", "")
        invoice_date == Strptime(Get(invoice_data, "date", ""))
        invoice_id   == Get(invoice_data, "invoice_id", "")
        i2 == Append1(<< >>, Len(invoice_id) < 5,
                      "Invoice ID too short for proper tracking")
        i4 == Append1(i2, Len(Split(vendor_name)) < 2,
                      "WARNING: Vendor name seems incomplete")
        i1 == Append1(<< >>, Weekday(invoice_date) >= 5,
                      "WARNING: Invoice dated on weekend")
        j2 == Append1(i1, Len(invoice_id) < 5,
                      "Invoice ID too short for proper tracking")
        j3 == Append1(j2, amount.v > 50000,
                      "High-value invoice requires CFO approval")
        j4 == Append1(j3, Len(Split(vendor_name)) < 2,
                      "WARNING: Vendor name seems incomplete")
        j5 == Append1(j4, now.m = 12 /\ amount.v > 10000,
                      "Year-end high-value invoice - verify budget availability")
    IN  IF ~amount.ok
        THEN Append(i4, "Contextual validation failed: " \o amount.msg)
        ELSE IF ~invoice_date.ok
        THEN Append(i4, "Contextual validation failed: " \o invoice_date.msg)
        ELSE j5

\* _contextual_validation(invoice_data), datetime.now() reading now
ContextualValidation(invoice_data, now) ==
    LET amount       == ToFloat(Get(invoice_data, "amount", [num |-> 0]))
        vendor_name  == Get(invoice_data, "vendor_name", "")
        invoice_date == Strptime(Get(invoice_data, "date", ""))
        invoice_id   == Get(invoice_data, "invoice_id", "")
        i1 == Append1(<< >>, Weekday(invoice_date) >= 5,
                      "WARNING: Invoice dated on weekend")
        i2 == Append1(i1, Len(invoice_id) < 5,
                      "Invoice ID too short for proper tracking")
        i3 == Append1(i2, amount.v > 50000,
                      "High-value invoice requires CFO approval")
        i4 == Append1(i3, Len(Split(vendor_name)) < 2,
                      "WARNING: Vendor name seems incomplete")
        i5 == Append1(i4, now.m = 12 /\ amount.v > 10000,
                      "Year-end high-value invoice - verify budget availability")
    IN  IF ~amount.ok THEN << "Contextual validation failed: " \o amount.msg >>
        ELSE IF ~invoice_date.ok
        THEN << "Contextual validation failed: " \o invoice_date.msg >>
        ELSE i5

(***************************************************************************)
(* Stage 4: InvoiceValidator._fraud_detection                              *)
(***************************************************************************)
\* the configured keywords found in the lower-cased vendor name, in order
KeywordHits(vendor_name) ==
    LET hit(k) == Contains(vendor_name, k)
    IN  SelectSeq(fraud_keywords, hit)

\* similar_vendors: approved vendors whose lower-cased name contains a token
\* of the lower-cased submitted name
SimilarVendors(erp_data, vendor_name) ==
    LET words == Split(vendor_name)
        similar(v) == \E w \in 1..Len(words) :
                          Contains(Lower(v.vendor_name), words[w])
    IN  SelectSeq(erp_data.approved_vendors, similar)

\* the exact-midnight test turned round: a point for a time other than 00:00
MidnightScoreNever(invoice_date) ==
    IF invoice_date.hour = 0 /\ invoice_date.minute = 0 THEN 0 ELSE 1

\* the +1 of the exact-midnight test on the parsed date
MidnightScore(invoice_date) ==
    IF invoice_date.hour = 0 /\ invoice_date.minute = 0 THEN 1 ELSE 0

\* _fraud_detection(invoice_data)
FraudDetection(invoice_data, erp_data) ==
    LET vendor_name  == Lower(Get(invoice_data, "vendor_name", ""))
        amount       == ToFloat(Get(invoice_data, "amount", [num |-> 0]))
        hits         == KeywordHits(vendor_name)
        i1 == [k \in 1..Len(hits) |->
                  "FRAUD ALERT: Suspicious keyword '" \o hits[k] \o "' in vendor name"]
        s1 == 3 * Len(hits)
        s2 == s1 + (IF amount.v % 1000 = 0 THEN 1 ELSE 0)
        i3 == Append1(i1, amount.v > 25000,
                      "High-value transaction flagged for review")
        s3 == s2 + (IF amount.v > 25000 THEN 2 ELSE 0)
        i4 == Append1(i3, HasDigitRun(vendor_name),
                      "WARNING: Vendor name contains suspicious digit pattern")
        s4 == s3 + (IF HasDigitRun(vendor_name) THEN 1 ELSE 0)
        many == Len(SimilarVendors(erp_data, vendor_name)) > 1
        i5 == Append1(i4, many,
                      "WARNING: Similar vendor names exist - verify authenticity")
        s5 == s4 + (IF many THEN 1 ELSE 0)
        invoice_date == Strptime(Get(invoice_data, "date", ""))
    IN  IF ~amount.ok THEN [exc |-> amount.exc, msg |-> amount.msg]
        ELSE IF ~invoice_date.ok THEN [exc |-> invoice_date.exc, msg |-> invoice_date.msg]
        ELSE [exc |-> "none", issues |-> i5,
              fraud_score |-> s5 + MidnightScore(invoice_date)]

(***************************************************************************)
(* Decision aggregation: InvoiceValidator.validate_invoice                 *)
(***************************************************************************)
\* "score": 25 if len(basic_issues) == 0 else 0
BasicScore(basic_issues) == IF Len(basic_issues) = 0 THEN 25 ELSE 0

\* ten points taken off per issue
ErpScorePerIssue(erp_issues) ==
    IF Len(erp_issues) < 3 THEN 30 - 10 * Len(erp_issues) ELSE 0

\* "score": 30 if len(erp_issues) == 0 else 10 if len(erp_issues) < 3 else 0
ErpScore(erp_issues) ==
    IF Len(erp_issues) = 0 THEN 30 ELSE IF Len(erp_issues) < 3 THEN 10 ELSE 0

\* a Contextual stage worth 20 points at most
ContextualScoreOfTwenty(contextual_issues) ==
    IF Len(contextual_issues) = 0 THEN 20
    ELSE IF Len(contextual_issues) < 2 THEN 10 ELSE 0

\* "score": 25 if len(contextual_issues) == 0 else 10 if ... < 2 else 0
ContextualScore(contextual_issues) ==
    IF Len(contextual_issues) = 0 THEN 25
    ELSE IF Len(contextual_issues) < 2 THEN 10 ELSE 0

\* thresholds one step too low
FraudStageScoreTight(fraud_score) ==
    IF fraud_score < 1 THEN 20 ELSE IF fraud_score < 6 THEN 10 ELSE 0

\* "score": 20 if fraud_score < 3 else 10 if fraud_score < 6 else 0
FraudStageScore(fraud_score) ==
    IF fraud_score < 3 THEN 20 ELSE IF fraud_score < 6 THEN 10 ELSE 0

\* the sum with the fraud stage left out
TotalScoreNoFraud(details) ==
    details.basic_validation.score + details.erp_validation.score
        + details.contextual_validation.score

\* total_score = sum([...]) over the four stage entries
TotalScore(details) ==
    details.basic_validation.score + details.erp_validation.score
        + details.contextual_validation.score + details.fraud_detection.score

\* the comparison without lower()
IsCriticalTextCaseSensitive(issue) == Contains(issue, "critical")

\* "critical" in i.lower()
IsCriticalText(issue) == Contains(Lower(issue), "critical")

\* approval on the score alone
DetermineStatusScoreOnly(total_score, all_issues) ==
    LET crit(i) == IsCriticalText(i)
    IN  IF total_score >= 80 THEN "approved"
        ELSE IF total_score >= 60 /\ Len(SelectSeq(all_issues, crit)) = 0
        THEN "approved_with_conditions"
        ELSE "rejected"

\* the if / elif / else that determines the final status
DetermineStatus(total_score, all_issues) ==
    LET crit(i) == IsCriticalText(i)
    IN  IF total_score >= 80 /\ Len(all_issues) = 0 THEN "approved"
        ELSE IF total_score >= 60 /\ Len(SelectSeq(all_issues, crit)) = 0
        THEN "approved_with_conditions"
        ELSE "rejected"

\* the empty dict {}
EmptyDict == << >>

\* validation_details as validate_invoice creates it
FreshDetails ==
    [basic_validation |-> EmptyDict, erp_validation |-> EmptyDict,
     contextual_validation |-> EmptyDict, fraud_detection |-> EmptyDict,
     overall_score |-> 0]

(***************************************************************************)
(* Inputs: the invoices submitted, the reference data loaded, the clock    *)
(***************************************************************************)
\* a key left out of the mapping
Absent == [has |-> FALSE]

Present(v) == [has |-> TRUE, v |-> v]

InvoiceIdOptions == {Present("INV-001"), Absent}

\* (vendor_name, tax_id) as submitted: the approved vendors Acme Corp and
\* Globex Trading, the blacklisted vendor, the blacklisted tax id under
\* another name, a name with fraud keywords and digits, an empty tax id,
\* neither key
VendorOptions ==
    { << Present("Acme Corp"), Present("12-3456789") >>,
      << Present("Globex Trading"), Present("34-5678901") >>,
      << Present("Globex Holdings"), Present("56-7890123") >>,
      << Present("Initech 2000"), Present("78-9012345") >>,
      << Present("Shady LLC"), Present("99-9999999") >>,
      << Present("Acme Corp"), Present("99-9999999") >>,
      << Present("Urgent Bitcoin 123"), Present("12-3456789") >>,
      << Present("Bad Invoice Co"), Present("") >>,
      << Absent, Absent >> }

AmountOptions ==
    {Present([num |-> 1500]), Present([num |-> 2000]),
     Present([num |-> 30000]),
     Present([num |-> 150000]), Present([num |-> -100]),
     Present([str |-> "1500.00"]), Present([str |-> "abc"]), Absent}

\* 2025-08-03 is a Sunday, 2026-09-01 a Tuesday, 2024-09-02 a Monday
DateOptions ==
    {Present("2025-08-03"), Present("2026-09-01"), Present("2024-09-02"),
     Present("03/08/2025"), Absent}

\* the dict with the keys whose option is present
MkInvoice(id, vendor, tax, amount, date) ==
    LET opt == [invoice_id |-> id, vendor_name |-> vendor, tax_id |-> tax,
                amount |-> amount, date |-> date]
    IN  [k \in {f \in DOMAIN opt : opt[f].has} |-> opt[k].v]

Invoices ==
    {MkInvoice(id, vt[1], vt[2], amount, date) :
        id \in InvoiceIdOptions, vt \in VendorOptions,
        amount \in AmountOptions, date \in DateOptions}

\* _load_erp_data: the dataset returned when the file is not found
ErpEmpty ==
    [purchase_orders |-> << >>, approved_vendors |-> << >>,
     blacklisted_vendors |-> << >>]

\* a dataset of the shape of data/erp_mock.json
ErpMock ==
    [purchase_orders |->
        << [po_number |-> "PO-1001", vendor_name |-> "Acme Corp",
            total_amount |-> 1500, status |-> "open",
            created_date |-> "2025-08-02"],
           [po_number |-> "PO-1002", vendor_name |-> "Acme Corp",
            total_amount |-> 30000, status |-> "closed",
            created_date |-> "2025-08-02"],
           [po_number |-> "PO-1003", vendor_name |-> "Globex Trading",
            total_amount |-> 30000, status |-> "open",
            created_date |-> "2024-01-15"],
           [po_number |-> "PO-1004", vendor_name |-> "Initech 2000",
            total_amount |-> 1500, status |-> "open",
            created_date |-> "2025-08-02"] >>,
     approved_vendors |->
        << [vendor_name |-> "Acme Corp", tax_id |-> "12-3456789",
            credit_limit |-> 50000, risk_level |-> "low", status |-> "approved"],
           [vendor_name |-> "Globex Trading", tax_id |-> "34-5678901",
            credit_limit |-> 10000, risk_level |-> "medium", status |-> "pending"],
           [vendor_name |-> "Globex Holdings", tax_id |-> "56-7890123",
            credit_limit |-> 20000, risk_level |-> "high", status |-> "suspended"],
           [vendor_name |-> "Initech 2000", tax_id |-> "78-9012345",
            credit_limit |-> 50000, risk_level |-> "low", status |-> "approved"] >>,
     blacklisted_vendors |->
        << [vendor_name |-> "Shady LLC", tax_id |-> "99-9999999"] >>]

ErpChoices == {ErpEmpty, ErpMock}

\* what open() and json.load() find at data/erp_mock.json: no file, a file
\* that cannot be opened or decoded, a file that is not JSON, a JSON file
ErpFiles == {"absent", "unreadable", "unparseable", "valid"}

\* _load_erp_data: only FileNotFoundError is handled
LoadErpData(file) ==
    IF file = "valid" THEN [exc |-> "none", data |-> ErpMock]
    ELSE IF file = "absent" THEN [exc |-> "none", data |-> ErpEmpty]
    ELSE IF file = "unreadable" THEN [exc |-> "PermissionError"]
    ELSE [exc |-> "JSONDecodeError"]

\* readings of datetime.now(), in time order
ClockInstants ==
    << [y |-> 2025, m |-> 8, d |-> 4, tod |-> 1],
       [y |-> 2026, m |-> 12, d |-> 1, tod |-> 1] >>

Entries == {"validate_invoice", "process_invoice"}

\* calls of validate_invoice a direct caller makes on one invoice
MaxCalls == 2

(***************************************************************************)
(* State                                                                   *)
(***************************************************************************)
VARIABLES
    io,                 \* calls made to the explanation service and the ledger
    agent,              \* the invoice agent: messages received, replies sent
    workers,           \* the validate_invoice calls of concurrent threads
    erp_file,           \* what is found at the path of the reference file
    entry,              \* the function the caller invoked
    invoice_data,       \* the caller's invoice mapping
    erp_data,           \* validator.erp_data, None before it is loaded
    clock,              \* index in ClockInstants of the current time
    pc,                 \* position in the call
    issues,             \* validate_invoice: issues
    validation_details, \* validate_invoice: validation_details
    status,             \* validate_invoice: status
    reads,              \* the clock readings the stages of this call took
    raised,             \* the exception that escaped to the caller, or "none"
    explanation,        \* process_invoice: explanation
    blockchain_result,  \* process_invoice: blockchain_result
    result,             \* the value process_invoice returned
    submitted,          \* audit records handed to blockchain.log_invoice
    trace,              \* the steps taken, in order
    calls,              \* validate_invoice calls started by the direct caller
    first               \* what the first direct call returned

vars ==
    << io, agent, workers, erp_file, entry, invoice_data, erp_data, clock, pc, issues, validation_details,
       status, reads, raised, explanation, blockchain_result, result,
       submitted, trace, calls, first >>

None == [none |-> TRUE]

\* no call made yet: requests to the explanation service, storeInvoice
\* calls and verification queries
NoCalls == [requests |-> 0, stores |-> 0, queries |-> 0]

now == ClockInstants[clock]

Init ==
    /\ agent = None
    /\ workers = << >>
    /\ entry \in Entries
    /\ invoice_data \in Invoices
    /\ erp_file \in ErpFiles
    /\ erp_data = None
    /\ clock = 1
    /\ pc = "load"
    /\ issues = << >>
    /\ validation_details = FreshDetails
    /\ status = "unset"
    /\ reads = << >>
    /\ raised = "none"
    /\ explanation = "unset"
    /\ blockchain_result = None
    /\ io = NoCalls
    /\ result = None
    /\ submitted = << >>
    /\ trace = << >>
    /\ calls = IF entry = "validate_invoice" THEN 1 ELSE 0
    /\ first = None

(***************************************************************************)
(* Explanation: utils/openai_explain.py                                    *)
(***************************************************************************)
\* list[:n]
Take(list, n) == SubSeq(list, 1, IF Len(list) < n THEN Len(list) ELSE n)

\* [i for i in issues if "CRITICAL" in i]
CriticalIssues(all_issues) ==
    LET crit(i) == Contains(i, "CRITICAL")
    IN  SelectSeq(all_issues, crit)

\* the templated explanation of the two fallback branches (the leading
\* pictograph of each template is left out)
FallbackExplanation(inv, all_issues, details) ==
    LET id == Get(inv, "invoice_id", "Unknown")
        amount == ToFloat(Get(inv, "amount", [num |-> 0]))
    IN  IF Len(all_issues) = 0
        THEN "Invoice " \o id \o " APPROVED (Score: "
                 \o ToString(details.overall_score)
                 \o "/100) - All validation stages passed. Vendor: "
                 \o Get(inv, "vendor_name", "Unknown") \o ", Amount: $"
                 \o FormatMoney(amount.v)
                 \o ". Ready for processing and blockchain logging."
        ELSE IF Len(CriticalIssues(all_issues)) > 0
        THEN "Invoice " \o id \o " REJECTED - Critical issues detected: "
                 \o Join("; ", CriticalIssues(all_issues))
                 \o ". Immediate review required."
        ELSE "Invoice " \o id \o " REJECTED - Validation failed. Issues: "
                 \o Join("; ", Take(all_issues, 3))
                 \o (IF Len(all_issues) > 3 THEN "..." ELSE "")
                 \o ". Please correct and resubmit."

\* what the external generator does on one call: no API key, the client
\* cannot be built, the request fails or times out, the response has no
\* usable content, or a text comes back
ExplainOutcomes ==
    {"no_api_key", "client_error", "api_error", "timeout", "malformed", "text"}

\* response.choices[0].message.content.strip() of a successful call
GeneratedText == "Status: see summary. Summary: generated by the language model."

\* a fixed notice in place of the templates
FallbackOnErrorNotice(inv, all_issues, details) ==
    "Invoice " \o Get(inv, "invoice_id", "Unknown")
        \o " - explanation service unavailable."

\* the templated explanation of the except branch, written out a second
\* time in the source
FallbackOnError(inv, all_issues, details) ==
    LET id == Get(inv, "invoice_id", "Unknown")
        amount == ToFloat(Get(inv, "amount", [num |-> 0]))
        critical_issues == CriticalIssues(all_issues)
    IN  IF Len(all_issues) = 0
        THEN "Invoice " \o id \o " APPROVED (Score: "
                 \o ToString(details.overall_score)
                 \o "/100) - All validation stages passed. Vendor: "
                 \o Get(inv, "vendor_name", "Unknown") \o ", Amount: $"
                 \o FormatMoney(amount.v)
                 \o ". Ready for processing and blockchain logging."
        ELSE IF Len(critical_issues) > 0
        THEN "Invoice " \o id \o " REJECTED - Critical issues detected: "
                 \o Join("; ", critical_issues)
                 \o ". Immediate review required."
        ELSE "Invoice " \o id \o " REJECTED - Validation failed. Issues: "
                 \o Join("; ", Take(all_issues, 3))
                 \o (IF Len(all_issues) > 3 THEN "..." ELSE "")
                 \o ". Please correct and resubmit."

\* get_openai_client(): None without an API key or when OpenAI(...) raises
HasClient(outcome) == outcome \notin {"no_api_key", "client_error"}

\* a failed request sent a second time
RequestsMadeWithRetry(outcome) ==
    IF ~HasClient(outcome) THEN 0 ELSE IF outcome = "text" THEN 1 ELSE 2

\* the client.chat.completions.create calls of one explain_validation call
RequestsMade(outcome) == IF HasClient(outcome) THEN 1 ELSE 0

\* explain_validation(invoice_data, issues, validation_details)
ExplainValidation(inv, all_issues, details, outcome) ==
    IF ~HasClient(outcome) THEN FallbackExplanation(inv, all_issues, details)
    ELSE IF outcome = "text" THEN GeneratedText
    ELSE FallbackOnError(inv, all_issues, details)

(***************************************************************************)
(* Ledger: BlockchainIntegration.log_invoice                               *)
(***************************************************************************)
\* what the canister call does: stored and verified, stored but not found by
\* the verification query, store rejected, store timed out after 30s
LedgerOutcomes == {"stored_verified", "stored_unverified", "store_failed", "timeout"}

\* the dict log_invoice returns
LogInvoice(audit_record, outcome) ==
    IF outcome \in {"stored_verified", "stored_unverified"}
    THEN [success |-> TRUE,
          message |-> "Invoice "
                        \o Get(audit_record.invoice_data, "invoice_id", "None")
                        \o " logged to ICP canister",
          verification |-> IF outcome = "stored_verified"
                           THEN "verified_in_canister"
                           ELSE "not_found_in_canister_list"]
    ELSE [success |-> FALSE,
          error |-> IF outcome = "timeout" THEN "dfx call timed out (30s)"
                    ELSE "dfx call failed",
          message |-> "Failed to log invoice to ICP canister"]

\* the _verify_invoice_stored calls of one log_invoice call: one after a
\* storeInvoice call that succeeded
QueriesMade(outcome) ==
    IF outcome \in {"stored_verified", "stored_unverified"} THEN 1 ELSE 0

\* "agent_decision" of the audit record
AgentDecision(st) ==
    IF st = "approved" THEN "automated_approval"
    ELSE IF st = "approved_with_conditions" THEN "conditional_approval"
    ELSE "automated_rejection"

(***************************************************************************)
(* Actions                                                                 *)
(***************************************************************************)
\* the error record of process_invoice's except branch
ErrorRecord(inv, msg) ==
    [invoice_id |-> Get(inv, "invoice_id", "Unknown"), status |-> "error",
     explanation |-> "Invoice processing failed: " \o msg, score |-> 0]

\* An exception e leaves validate_invoice: it reaches a direct caller, and
\* inside process_invoice it is caught by the except branch.
Raise(e) ==
    IF entry = "validate_invoice"
    THEN /\ pc' = "raised"
         /\ raised' = e.exc
         /\ result' = result
    ELSE /\ pc' = "done"
         /\ raised' = raised
         /\ result' = ErrorRecord(invoice_data, e.msg)

\* validator = InvoiceValidator(): __init__ loads the reference data; an
\* exception of _load_erp_data leaves the constructor
Construct ==
    /\ pc = "load"
    /\ LET loaded == LoadErpData(erp_file)
       IN  IF loaded.exc = "none"
           THEN /\ erp_data' = loaded.data
                /\ pc' = IF entry = "process_invoice" THEN "call"
                         ELSE "validate"
                /\ raised' = raised
           ELSE /\ erp_data' = erp_data
                /\ pc' = "load_failed"
                /\ raised' = loaded.exc
    /\ UNCHANGED << io, agent, workers, erp_file, entry, invoice_data, clock, issues,
                    validation_details, status, reads, explanation,
                    blockchain_result, result, submitted, trace, calls,
                    first >>

\* process_invoice up to its try: the three prints, the third of which
\* formats float(invoice_data.get('amount', 0))
ProcessInvoiceStart ==
    /\ pc = "call"
    /\ LET amount == ToFloat(Get(invoice_data, "amount", [num |-> 0]))
       IN  IF amount.ok
           THEN pc' = "validate" /\ raised' = raised
           ELSE pc' = "raised" /\ raised' = amount.exc
    /\ trace' = Append(trace, "process_invoice")
    /\ UNCHANGED << io, agent, workers, erp_file, entry, invoice_data, erp_data, clock, issues,
                    validation_details, status, reads, explanation,
                    blockchain_result, result, submitted, calls, first >>

\* the issue list of the previous call kept
KeptIssues == issues

\* issues = []
FreshIssues == << >>

\* validate_invoice: issues = [] and the fresh validation_details
ValidateInvoiceStart ==
    /\ pc = "validate"
    /\ issues' = FreshIssues
    /\ validation_details' = FreshDetails
    /\ status' = "unset"
    /\ reads' = << >>
    /\ pc' = "basic"
    /\ trace' = Append(trace, "validate_invoice")
    /\ UNCHANGED << io, agent, workers, erp_file, entry, invoice_data, erp_data, clock, raised, explanation,
                    blockchain_result, result, submitted, calls, first >>

\* Stage 1 and its validation_details entry
StageBasic ==
    /\ pc = "basic"
    /\ LET basic_issues == BasicValidation(invoice_data, now)
       IN  /\ issues' = issues \o basic_issues
           /\ validation_details' =
                [validation_details EXCEPT !.basic_validation =
                    [passed |-> Len(basic_issues) = 0, issues |-> basic_issues,
                     score |-> BasicScore(basic_issues)]]
    /\ reads' = Append(reads, clock)
    /\ pc' = "erp"
    /\ trace' = Append(trace, "basic")
    /\ UNCHANGED << io, agent, workers, erp_file, entry, invoice_data, erp_data, clock, status, raised,
                    explanation, blockchain_result, result, submitted, calls,
                    first >>

\* Stage 2 and its validation_details entry
StageErp ==
    /\ pc = "erp"
    /\ trace' = Append(trace, "erp")
    /\ LET r == ErpValidation(invoice_data, erp_data)
       IN  IF r.exc # "none"
           THEN Raise(r) /\ UNCHANGED << issues, validation_details >>
           ELSE /\ issues' = issues \o r.issues
                /\ validation_details' =
                     [validation_details EXCEPT !.erp_validation =
                         [passed |-> Len(r.issues) = 0, issues |-> r.issues,
                          details |-> r.details, score |-> ErpScore(r.issues)]]
                /\ pc' = "contextual"
                /\ UNCHANGED << raised, result >>
    /\ UNCHANGED << io, agent, workers, erp_file, entry, invoice_data, erp_data, clock, status, reads,
                    explanation, blockchain_result, submitted, calls, first >>

\* Stage 3 and its validation_details entry
StageContextual ==
    /\ pc = "contextual"
    /\ LET contextual_issues == ContextualValidation(invoice_data, now)
       IN  /\ issues' = issues \o contextual_issues
           /\ validation_details' =
                [validation_details EXCEPT !.contextual_validation =
                    [passed |-> Len(contextual_issues) = 0,
                     issues |-> contextual_issues,
                     score |-> ContextualScore(contextual_issues)]]
    /\ reads' = Append(reads, clock)
    /\ pc' = "fraud"
    /\ trace' = Append(trace, "contextual")
    /\ UNCHANGED << io, agent, workers, erp_file, entry, invoice_data, erp_data, clock, status, raised,
                    explanation, blockchain_result, result, submitted, calls,
                    first >>

\* Stage 4 and its validation_details entry
StageFraud ==
    /\ pc = "fraud"
    /\ trace' = Append(trace, "fraud")
    /\ LET r == FraudDetection(invoice_data, erp_data)
       IN  IF r.exc # "none"
           THEN Raise(r) /\ UNCHANGED << issues, validation_details >>
           ELSE /\ issues' = issues \o r.issues
                /\ validation_details' =
                     [validation_details EXCEPT !.fraud_detection =
                         [passed |-> Len(r.issues) = 0, issues |-> r.issues,
                          risk_score |-> r.fraud_score,
                          score |-> FraudStageScore(r.fraud_score)]]
                /\ pc' = "aggregate"
                /\ UNCHANGED << raised, result >>
    /\ UNCHANGED << io, agent, workers, erp_file, entry, invoice_data, erp_data, clock, status, reads,
                    explanation, blockchain_result, submitted, calls, first >>

\* overall score, final status, return
Aggregate ==
    /\ pc = "aggregate"
    /\ LET total_score == TotalScore(validation_details)
       IN  /\ validation_details' =
                [validation_details EXCEPT !.overall_score = total_score]
           /\ status' = DetermineStatus(total_score, issues)
    /\ pc' = IF entry = "validate_invoice" THEN "returned" ELSE "explain"
    /\ trace' = Append(trace, "verdict")
    /\ UNCHANGED << io, agent, workers, erp_file, entry, invoice_data, erp_data, clock, issues, reads, raised,
                    explanation, blockchain_result, result, submitted, calls,
                    first >>

\* explanation = explain_validation(invoice_data, issues, validation_details)
Explain ==
    /\ pc = "explain"
    /\ \E outcome \in ExplainOutcomes :
         /\ explanation' =
              ExplainValidation(invoice_data, issues, validation_details, outcome)
         /\ io' = [io EXCEPT !.requests = @ + RequestsMade(outcome)]
         /\ trace' = Append(trace, "explain")
    /\ pc' = "ledger"
    /\ UNCHANGED << agent, workers, erp_file, entry, invoice_data, erp_data, clock, issues,
                    validation_details, status, reads, raised,
                    blockchain_result, result, submitted, calls, first >>

\* invoice_data['id'] = invoice_data['invoice_id'] when 'id' is not a key
\* and 'invoice_id' is
WithId(inv) ==
    IF "id" \notin DOMAIN inv /\ "invoice_id" \in DOMAIN inv
    THEN inv @@ ("id" :> inv["invoice_id"])
    ELSE inv

\* the audit record process_invoice builds (the timestamp is left out)
AuditRecord(inv, st, expl, details, all_issues) ==
    [invoice_data |-> inv,
     validation_result |-> [score |-> details.overall_score],
     status |-> st,
     explanation |-> expl,
     validation_score |-> details.overall_score,
     validation_stages |-> details,
     issues_count |-> Len(all_issues),
     agent_decision |-> AgentDecision(st)]

\* the blockchain block of process_invoice: audit record, log_invoice
SubmitToLedger ==
    /\ pc = "ledger"
    /\ invoice_data' = WithId(invoice_data)
    /\ \E outcome \in LedgerOutcomes :
         LET audit_record == AuditRecord(invoice_data', status, explanation,
                                         validation_details, issues)
         IN  /\ blockchain_result' = LogInvoice(audit_record, outcome)
             /\ submitted' = Append(submitted, audit_record)
             /\ io' = [io EXCEPT !.stores = @ + 1,
                                 !.queries = @ + QueriesMade(outcome)]
             /\ trace' = Append(trace, "ledger")
    /\ pc' = "assemble"
    /\ UNCHANGED << agent, workers, erp_file, entry, erp_data, clock, issues, validation_details, status,
                    reads, raised, explanation, result, calls, first >>

\* a ledger failure turned into the error record
ResponseFailsWithLedger(inv, st, expl, details, all_issues, bc) ==
    IF bc.success
    THEN [invoice_id |-> inv["invoice_id"], status |-> st, explanation |-> expl,
          score |-> details.overall_score, validation_details |-> details,
          issues |-> all_issues, blockchain |-> bc, blockchain_result |-> bc]
    ELSE ErrorRecord(inv, bc.error)

\* result = {...}: the response of a run that reached the end of the try
Response(inv, st, expl, details, all_issues, bc) ==
    [invoice_id |-> inv["invoice_id"], status |-> st, explanation |-> expl,
     score |-> details.overall_score, validation_details |-> details,
     issues |-> all_issues, blockchain |-> bc, blockchain_result |-> bc]

\* the response process_invoice returns; invoice_data["invoice_id"] raises
\* KeyError when the key is absent, which the except branch turns into the
\* error record
PrepareResponse ==
    /\ pc = "assemble"
    /\ result' =
         IF "invoice_id" \in DOMAIN invoice_data
         THEN Response(invoice_data, status, explanation, validation_details,
                       issues, blockchain_result)
         ELSE ErrorRecord(invoice_data, "'invoice_id'")
    /\ pc' = "done"
    /\ trace' = Append(trace, "return")
    /\ UNCHANGED << io, agent, workers, erp_file, entry, invoice_data, erp_data, clock, issues,
                    validation_details, status, reads, raised, explanation,
                    blockchain_result, submitted, calls, first >>

\* Time passes. Only Stage 1 and Stage 3 read the clock, so the clock is
\* advanced right before one of them reads it.
Tick ==
    /\ pc \in {"basic", "contextual"}
    /\ clock < Len(ClockInstants)
    /\ clock' = clock + 1
    /\ UNCHANGED << io, agent, workers, erp_file, entry, invoice_data, erp_data, pc, issues,
                    validation_details, status, reads, raised, explanation,
                    blockchain_result, result, submitted, trace, calls, first >>

\* what validate_invoice returned: (status, issues, validation_details),
\* with the clock readings of the call
Verdict ==
    [status |-> status, issues |-> issues,
     validation_details |-> validation_details, reads |-> reads]

\* the direct caller validates the same invoice again
Revalidate ==
    /\ pc = "returned"
    /\ calls < MaxCalls
    /\ calls' = calls + 1
    /\ first' = IF first = None THEN Verdict ELSE first
    /\ pc' = "validate"
    /\ UNCHANGED << io, agent, workers, erp_file, entry, invoice_data, erp_data, clock, issues,
                    validation_details, status, reads, raised, explanation,
                    blockchain_result, result, submitted, trace >>

Next ==
    \/ Construct
    \/ ProcessInvoiceStart
    \/ ValidateInvoiceStart
    \/ StageBasic
    \/ StageErp
    \/ StageContextual
    \/ StageFraud
    \/ Aggregate
    \/ Explain
    \/ SubmitToLedger
    \/ PrepareResponse
    \/ Tick
    \/ Revalidate

Spec == Init /\ [][Next]_vars

(***************************************************************************)
(* Concurrent validations: the Flask request threads and the agent thread  *)
(* call validate_invoice of the one module-level validator                 *)
(***************************************************************************)
\* threads validating at the same time
MaxWorkers == 2

Workers == 1..MaxWorkers

\* the invoices the threads submit
ConcurrentInvoices ==
    {MkInvoice(Present("INV-001"), Present("Acme Corp"), Present("12-3456789"),
               Present([num |-> 1500]), Present("2025-08-03")),
     MkInvoice(Present("INV-001"), Present("Bad Invoice Co"), Present(""),
               Present([num |-> -100]), Present("03/08/2025"))}

\* the frame of one validate_invoice call: its argument, its position, its
\* local variables, the clock readings it took, the exception it raised
Frame(inv) ==
    [invoice_data |-> inv, pc |-> "validate", issues |-> << >>,
     validation_details |-> FreshDetails, status |-> "unset",
     reads |-> << >>, raised |-> "none"]

\* the variables of the single-call specification, not used here
callvars ==
    << io, agent, erp_file, entry, invoice_data, pc, issues, validation_details, status,
       reads, raised, explanation, blockchain_result, result, submitted,
       trace, calls, first >>

InitConcurrent ==
    /\ workers \in [Workers -> {Frame(inv) : inv \in ConcurrentInvoices}]
    /\ agent = None
    /\ erp_file = "valid"
    /\ erp_data = LoadErpData(erp_file).data
    /\ clock = 1
    /\ entry = "validate_invoice"
    /\ invoice_data = EmptyDict
    /\ pc = "concurrent"
    /\ issues = << >>
    /\ validation_details = FreshDetails
    /\ status = "unset"
    /\ reads = << >>
    /\ raised = "none"
    /\ explanation = "unset"
    /\ blockchain_result = None
    /\ io = NoCalls
    /\ result = None
    /\ submitted = << >>
    /\ trace = << >>
    /\ calls = 0
    /\ first = None

\* the issue list of the first thread's call, as if the list were an
\* attribute of the shared validator
SharedIssues(w) == workers[1].issues

\* issues: a local variable of the call
LocalIssues(w) == workers[w].issues

\* the step of thread w leaves its frame as f
StepTo(w, f) ==
    /\ workers' = [workers EXCEPT ![w] = f]
    /\ UNCHANGED << erp_data, clock >>
    /\ UNCHANGED callvars

\* thread w: issues = [] and the fresh validation_details
WorkerStart(w) ==
    /\ workers[w].pc = "validate"
    /\ StepTo(w, [workers[w] EXCEPT !.pc = "basic", !.issues = FreshIssues,
                                    !.validation_details = FreshDetails])

\* thread w: Stage 1
WorkerBasic(w) ==
    /\ workers[w].pc = "basic"
    /\ LET basic_issues == BasicValidation(workers[w].invoice_data, now)
       IN  StepTo(w, [workers[w] EXCEPT
                !.pc = "erp",
                !.issues = LocalIssues(w) \o basic_issues,
                !.reads = Append(@, clock),
                !.validation_details.basic_validation =
                    [passed |-> Len(basic_issues) = 0, issues |-> basic_issues,
                     score |-> BasicScore(basic_issues)]])

\* thread w: Stage 2
WorkerErp(w) ==
    /\ workers[w].pc = "erp"
    /\ LET r == ErpValidation(workers[w].invoice_data, erp_data)
       IN  IF r.exc # "none"
           THEN StepTo(w, [workers[w] EXCEPT !.pc = "raised", !.raised = r.exc])
           ELSE StepTo(w, [workers[w] EXCEPT
                    !.pc = "contextual",
                    !.issues = LocalIssues(w) \o r.issues,
                    !.validation_details.erp_validation =
                        [passed |-> Len(r.issues) = 0, issues |-> r.issues,
                         details |-> r.details, score |-> ErpScore(r.issues)]])

\* thread w: Stage 3
WorkerContextual(w) ==
    /\ workers[w].pc = "contextual"
    /\ LET contextual_issues ==
               ContextualValidation(workers[w].invoice_data, now)
       IN  StepTo(w, [workers[w] EXCEPT
                !.pc = "fraud",
                !.issues = LocalIssues(w) \o contextual_issues,
                !.reads = Append(@, clock),
                !.validation_details.contextual_validation =
                    [passed |-> Len(contextual_issues) = 0,
                     issues |-> contextual_issues,
                     score |-> ContextualScore(contextual_issues)]])

\* thread w: Stage 4
WorkerFraud(w) ==
    /\ workers[w].pc = "fraud"
    /\ LET r == FraudDetection(workers[w].invoice_data, erp_data)
       IN  IF r.exc # "none"
           THEN StepTo(w, [workers[w] EXCEPT !.pc = "raised", !.raised = r.exc])
           ELSE StepTo(w, [workers[w] EXCEPT
                    !.pc = "aggregate",
                    !.issues = LocalIssues(w) \o r.issues,
                    !.validation_details.fraud_detection =
                        [passed |-> Len(r.issues) = 0, issues |-> r.issues,
                         risk_score |-> r.fraud_score,
                         score |-> FraudStageScore(r.fraud_score)]])

\* thread w: overall score, final status, return
WorkerAggregate(w) ==
    /\ workers[w].pc = "aggregate"
    /\ LET total_score == TotalScore(workers[w].validation_details)
       IN  StepTo(w, [workers[w] EXCEPT
                !.pc = "returned",
                !.validation_details.overall_score = total_score,
                !.status = DetermineStatus(total_score, LocalIssues(w))])

\* time passes while the threads run
TickConcurrent ==
    /\ clock < Len(ClockInstants)
    /\ \E w \in Workers : workers[w].pc \in {"basic", "contextual"}
    /\ clock' = clock + 1
    /\ UNCHANGED << workers, erp_data >>
    /\ UNCHANGED callvars

NextConcurrent ==
    \/ \E w \in Workers : WorkerStart(w)
    \/ \E w \in Workers : WorkerBasic(w)
    \/ \E w \in Workers : WorkerErp(w)
    \/ \E w \in Workers : WorkerContextual(w)
    \/ \E w \in Workers : WorkerFraud(w)
    \/ \E w \in Workers : WorkerAggregate(w)
    \/ TickConcurrent

SpecConcurrent == InitConcurrent /\ [][NextConcurrent]_vars

\* validate_invoice after its four stage calls: b, e, c and f are what the
\* stages gave; the details filled so far, the verdict or the exception
Assemble(b, e, c, f) ==
    LET d1 == [FreshDetails EXCEPT !.basic_validation =
                  [passed |-> Len(b) = 0, issues |-> b, score |-> BasicScore(b)]]
        d2 == [d1 EXCEPT !.erp_validation =
                  [passed |-> Len(e.issues) = 0, issues |-> e.issues,
                   details |-> e.details, score |-> ErpScore(e.issues)]]
        d3 == [d2 EXCEPT !.contextual_validation =
                  [passed |-> Len(c) = 0, issues |-> c,
                   score |-> ContextualScore(c)]]
        d4 == [d3 EXCEPT !.fraud_detection =
                  [passed |-> Len(f.issues) = 0, issues |-> f.issues,
                   risk_score |-> f.fraud_score,
                   score |-> FraudStageScore(f.fraud_score)]]
        all == b \o e.issues \o c \o f.issues
    IN  IF e.exc # "none"
        THEN [raised |-> e.exc, msg |-> e.msg, status |-> "unset",
              issues |-> b, validation_details |-> d1]
        ELSE IF f.exc # "none"
        THEN [raised |-> f.exc, msg |-> f.msg, status |-> "unset",
              issues |-> b \o e.issues \o c, validation_details |-> d3]
        ELSE [raised |-> "none", msg |-> "",
              status |-> DetermineStatus(TotalScore(d4), all),
              issues |-> all,
              validation_details |->
                  [d4 EXCEPT !.overall_score = TotalScore(d4)]]

\* validate_invoice run from start to end by one caller alone, Stage 1
\* reading the clock at now1 and Stage 3 at now2: what it returns or raises
ValidateAlone(inv, erp, now1, now2) ==
    Assemble(BasicValidation(inv, now1), ErpValidation(inv, erp),
             ContextualValidation(inv, now2), FraudDetection(inv, erp))

(***************************************************************************)
(* The invoice agent: handle_invoice_message                               *)
(***************************************************************************)
\* process_invoice after validate_invoice gave v: explanation, ledger
\* submission, response, or the error record of the except branch
AfterValidation(inv, v, explain_outcome, ledger_outcome) ==
    LET expl   == ExplainValidation(inv, v.issues, v.validation_details,
                                    explain_outcome)
        logged == WithId(inv)
        bc     == LogInvoice(AuditRecord(logged, v.status, expl,
                                         v.validation_details, v.issues),
                             ledger_outcome)
    IN  IF v.raised # "none" THEN ErrorRecord(inv, v.msg)
        ELSE IF "invoice_id" \notin DOMAIN inv
        THEN ErrorRecord(inv, "'invoice_id'")
        ELSE Response(logged, v.status, expl, v.validation_details,
                      v.issues, bc)

\* process_invoice run from start to end: the record it returns, or the
\* exception of the print before its try
ProcessInvoice(inv, erp, now1, now2, explain_outcome, ledger_outcome) ==
    LET amount == ToFloat(Get(inv, "amount", [num |-> 0]))
    IN  IF ~amount.ok THEN [exc |-> amount.exc]
        ELSE [exc |-> "none",
              result |-> AfterValidation(inv,
                             ValidateAlone(inv, erp, now1, now2),
                             explain_outcome, ledger_outcome)]

\* Invoice messages the agent handles before it stops
MaxMessages == 2

Senders == {"agent1vendor", "agent1tester"}

\* Invoice messages: the five fields are present and amount is a float
Messages ==
    {[sender |-> s, invoice_id |-> f[1], vendor_name |-> f[2],
      tax_id |-> f[3], amount |-> f[4], date |-> f[5]] :
        s \in Senders,
        f \in {<< "INV-001", "Acme Corp", "12-3456789", 1500, "2025-08-03" >>,
               << "INV-003", "Bad Invoice Co", "", -100, "03/08/2025" >>}}

\* the dict handle_invoice_message builds from the message
InvoiceDict(msg) ==
    [invoice_id |-> msg.invoice_id, vendor_name |-> msg.vendor_name,
     tax_id |-> msg.tax_id, amount |-> [num |-> msg.amount],
     date |-> msg.date, line_items |-> << >>, notes |-> ""]

\* a reply that reports the message as processed, whatever the result
ValidationResultProcessed(res) ==
    [invoice_id |-> res.invoice_id, status |-> "processed",
     explanation |-> res.explanation, score |-> res.score,
     validation_details |-> Get(res, "validation_details", EmptyDict)]

\* response = ValidationResult(...)
ValidationResult(res) ==
    [invoice_id |-> res.invoice_id, status |-> res.status,
     explanation |-> res.explanation, score |-> res.score,
     validation_details |-> Get(res, "validation_details", EmptyDict)]

\* the variables the agent's steps leave alone
agentframe ==
    << io, workers, erp_file, entry, invoice_data, erp_data, clock, pc, issues,
       validation_details, status, reads, raised, explanation,
       blockchain_result, result, submitted, trace, calls, first >>

InitAgent ==
    /\ agent = [received |-> << >>, handled |-> 0, cur |-> None,
                results |-> << >>, sent |-> << >>]
    /\ workers = << >>
    /\ erp_file = "valid"
    /\ erp_data = LoadErpData(erp_file).data
    /\ clock = 1
    /\ entry = "process_invoice"
    /\ invoice_data = EmptyDict
    /\ pc = "agent"
    /\ issues = << >>
    /\ validation_details = FreshDetails
    /\ status = "unset"
    /\ reads = << >>
    /\ raised = "none"
    /\ explanation = "unset"
    /\ blockchain_result = None
    /\ io = NoCalls
    /\ result = None
    /\ submitted = << >>
    /\ trace = << >>
    /\ calls = 0
    /\ first = None

\* an Invoice message arrives and is queued for the handler
Receive ==
    /\ Len(agent.received) < MaxMessages
    /\ \E msg \in Messages :
         agent' = [agent EXCEPT !.received = Append(@, msg)]
    /\ UNCHANGED agentframe

\* a message is queued and no handler is running
HandlerReady == agent.cur = None /\ agent.handled < Len(agent.received)

\* handle_invoice_message up to its await: the dict, process_invoice, the
\* ValidationResult; an exception ends the handler without a reply
HandleInvoiceMessage ==
    /\ HandlerReady
    /\ LET msg == agent.received[agent.handled + 1]
       IN  \E eo \in ExplainOutcomes, lo \in LedgerOutcomes :
             LET r == ProcessInvoice(InvoiceDict(msg), erp_data, now, now,
                                     eo, lo)
             IN  IF r.exc # "none"
                 THEN agent' = [agent EXCEPT
                        !.handled = @ + 1,
                        !.results = Append(@, [status |-> "raised"])]
                 ELSE agent' = [agent EXCEPT
                        !.handled = @ + 1,
                        !.results = Append(@, [status |-> r.result.status]),
                        !.cur = [sender |-> msg.sender,
                                 response |-> ValidationResult(r.result)]]
    /\ UNCHANGED agentframe

\* await ctx.send(sender, response)
SendResponse ==
    /\ agent.cur # None
    /\ agent' = [agent EXCEPT
           !.sent = Append(@, [to |-> agent.cur.sender,
                               msg |-> agent.cur.response]),
           !.cur = None]
    /\ UNCHANGED agentframe

NextAgent ==
    \/ Receive
    \/ HandleInvoiceMessage
    \/ SendResponse

\* The event loop runs a queued handler and completes a pending send: weak
\* fairness of both steps, that of the handler with its enabling condition
\* HandlerReady written out.
SpecAgent ==
    /\ InitAgent
    /\ [][NextAgent]_vars
    /\ ([]<>(~HandlerReady) \/ []<><<HandleInvoiceMessage>>_vars)
    /\ WF_vars(SendResponse)

(***************************************************************************)
(* Properties                                                              *)
(***************************************************************************)
StageNames ==
    {"basic_validation", "erp_validation", "contextual_validation",
     "fraud_detection"}

\* validate_invoice has computed its verdict
HasVerdict == status # "unset"

\* the issue lists of the four stage results, in stage order
StageIssues ==
    validation_details.basic_validation.issues
        \o validation_details.erp_validation.issues
        \o validation_details.contextual_validation.issues
        \o validation_details.fraud_detection.issues

NoCriticalIn(list) ==
    \A i \in 1..Len(list) : ~Contains(Lower(list[i]), "critical")

\* C1: the status of every verdict follows the three rules in order:
\* approved if overall_score >= 80 and the four stages report no issue,
\* else approved_with_conditions if overall_score >= 60 and no issue text
\* contains "critical" in any letter case, else rejected; nothing else.
C1_StatusRules ==
    HasVerdict =>
        LET score == validation_details.overall_score
            rule1 == score >= 80 /\ Len(StageIssues) = 0
            rule2 == score >= 60 /\ NoCriticalIn(StageIssues)
        IN  /\ status \in {"approved", "approved_with_conditions", "rejected"}
            /\ (status = "approved") <=> rule1
            /\ (status = "approved_with_conditions") <=> (~rule1 /\ rule2)
            /\ (status = "rejected") <=> (~rule1 /\ ~rule2)

\* a verdict rejected on rule 2's critical test alone: its score is 60 or more
C1_Witness ==
    /\ pc = "returned"
    /\ status = "rejected"
    /\ validation_details.overall_score >= 60

\* C2: in every verdict overall_score is the sum of the four stage scores
\* and lies in 0..100.
C2_ScoreIsSum ==
    HasVerdict =>
        /\ validation_details.overall_score =
              validation_details.basic_validation.score
                + validation_details.erp_validation.score
                + validation_details.contextual_validation.score
                + validation_details.fraud_detection.score
        /\ validation_details.overall_score \in 0..100

\* a verdict whose four stages all contribute a positive score below the cap
C2_Witness ==
    /\ pc = "returned"
    /\ validation_details.fraud_detection.score = 10
    /\ validation_details.erp_validation.score = 10
    /\ validation_details.contextual_validation.score = 10
    /\ validation_details.basic_validation.score = 25

\* C3: validate_invoice raises no exception, whatever the input mapping.
C3_ValidateNeverRaises == ~(entry = "validate_invoice" /\ pc = "raised")

\* C4: process_invoice never raises to its caller.
C4_ProcessNeverRaises == ~(entry = "process_invoice" /\ pc = "raised")

\* C5: every validate_invoice call runs all four stages: when the call is
\* over, each stage has put its result into validation_details.
C5_AllStagesRun ==
    (entry = "validate_invoice" /\ pc \in {"returned", "raised"}) =>
        \A st \in StageNames : validation_details[st] # EmptyDict

\* the verdict variables are settled once validate_invoice has returned
VerdictFrozen ==
    (pc \in {"explain", "ledger", "assemble"}) =>
        /\ status' = status
        /\ issues' = issues
        /\ validation_details' = validation_details

\* the response carries the verdict, and is the error record only when the
\* validation raised or the mapping has no invoice_id key
ResponseCarriesVerdict ==
    (entry = "process_invoice" /\ pc = "done") =>
        IF HasVerdict /\ "invoice_id" \in DOMAIN invoice_data
        THEN /\ result.status = status
             /\ result.status # "error"
             /\ result.score = validation_details.overall_score
             /\ result.issues = issues
             /\ result.validation_details = validation_details
        ELSE result.status = "error"

\* C6: whatever the explanation call and the ledger call do, the verdict
\* computed before them is left as it is and is what process_invoice
\* returns; their failure does not make the status "error".
C6_VerdictSurvivesFailures ==
    [](ResponseCarriesVerdict) /\ [][VerdictFrozen]_vars

\* a run returned its verdict although the generator and the ledger failed
C6_Witness ==
    /\ entry = "process_invoice"
    /\ pc = "done"
    /\ result.status \in {"approved", "approved_with_conditions", "rejected"}
    /\ explanation # GeneratedText
    /\ ~blockchain_result.success

\* the submitted (vendor_name, tax_id) matches a blacklist entry on both
BlacklistedPair ==
    /\ "vendor_name" \in DOMAIN invoice_data
    /\ "tax_id" \in DOMAIN invoice_data
    /\ \E i \in 1..Len(erp_data.blacklisted_vendors) :
          /\ Lower(erp_data.blacklisted_vendors[i].vendor_name)
                = Lower(invoice_data["vendor_name"])
          /\ erp_data.blacklisted_vendors[i].tax_id = invoice_data["tax_id"]

ErpResultPresent == validation_details.erp_validation # EmptyDict

\* C7 as stated: a blacklisted pair gives exactly one issue and score 0.
C7_BlacklistScoreZero ==
    (ErpResultPresent /\ BlacklistedPair) =>
        /\ Len(validation_details.erp_validation.issues) = 1
        /\ validation_details.erp_validation.score = 0

\* C7 amended: the Cross-Reference result of a blacklisted pair has exactly
\* one issue, the critical blacklist issue, and the score 10 that one issue
\* gives.
C7_BlacklistOneIssue ==
    (ErpResultPresent /\ BlacklistedPair) =>
        /\ validation_details.erp_validation.issues
              = << "CRITICAL: Vendor is blacklisted in ERP system" >>
        /\ validation_details.erp_validation.score = 10

\* a verdict for a blacklisted pair whose other three stages report nothing
C7_Witness ==
    /\ pc = "returned"
    /\ BlacklistedPair
    /\ Len(issues) = 1

\* C8: a verdict without any issue has overall_score 100 and is approved.
C8_CleanIsApproved ==
    (HasVerdict /\ Len(StageIssues) = 0) =>
        /\ validation_details.overall_score = 100
        /\ status = "approved"

\* a verdict without any issue was returned
C8_Witness ==
    /\ pc = "returned"
    /\ Len(issues) = 0
    /\ validation_details.basic_validation.passed
    /\ validation_details.erp_validation.details["po_matched"]

\* C9: a verdict of score exactly 80 with exactly one issue, not critical,
\* is approved_with_conditions.
C9_EightyWithOneIssue ==
    (/\ HasVerdict
     /\ validation_details.overall_score = 80
     /\ Len(StageIssues) = 1
     /\ NoCriticalIn(StageIssues)) => status = "approved_with_conditions"

\* such a verdict was returned
C9_Witness ==
    /\ pc = "returned"
    /\ validation_details.overall_score = 80
    /\ Len(issues) = 1
    /\ NoCriticalIn(issues)

SameAsFirst ==
    /\ status = first.status
    /\ issues = first.issues
    /\ validation_details = first.validation_details

\* C10 as stated: a second call on the same invoice and reference data
\* returns what the first call returned, whenever the calls run.
C10_Idempotent == (pc = "returned" /\ first # None) => SameAsFirst

\* C10 amended: a second call whose stages read the same clock values as
\* the first call's returns what the first call returned.
C10_IdempotentSameClock ==
    (pc = "returned" /\ first # None /\ reads = first.reads) => SameAsFirst

\* two calls with the same clock readings returned a verdict with issues
C10_Witness ==
    /\ pc = "returned"
    /\ first # None
    /\ reads = first.reads
    /\ Len(issues) > 1

\* the score of a stage result, where the stage has contributed one
ScoreIn(stage, allowed) ==
    validation_details[stage] # EmptyDict =>
        validation_details[stage].score \in allowed

\* C11: every stage score is one of the values its stage can give:
\* basic_validation 0 or 25, erp_validation 0, 10 or 30,
\* contextual_validation 0, 10 or 25, fraud_detection 0, 10 or 20.
C11_StageScoresInRange ==
    /\ ScoreIn("basic_validation", {0, 25})
    /\ ScoreIn("erp_validation", {0, 10, 30})
    /\ ScoreIn("contextual_validation", {0, 10, 25})
    /\ ScoreIn("fraud_detection", {0, 10, 20})

\* a verdict whose Field Validator and Cross-Reference stages score 0 while
\* the fraud stage scores below its cap
C11_Witness ==
    /\ HasVerdict
    /\ validation_details.basic_validation.score = 0
    /\ validation_details.erp_validation.score = 0
    /\ validation_details.fraud_detection.score < 20

\* list contains the text
Has(list, text) == \E i \in 1..Len(list) : list[i] = text

\* C12: against empty reference lists every validate_invoice call ends
\* with a verdict whose erp_validation issues contain both "Vendor not
\* found in approved vendor list" and "No matching open purchase order
\* found".
C12_EmptyErpBothIssues ==
    (/\ entry = "validate_invoice"
     /\ erp_data = ErpEmpty
     /\ pc \in {"returned", "raised"}) =>
        /\ HasVerdict
        /\ Has(validation_details.erp_validation.issues,
               "Vendor not found in approved vendor list")
        /\ Has(validation_details.erp_validation.issues,
               "No matching open purchase order found")

\* C13: when the reference file is absent, unreadable or not parseable,
\* the validator is constructed all the same and works with three empty
\* reference lists.
C13_LoadFailureGivesEmpty ==
    (pc # "load" /\ erp_file # "valid") =>
        /\ pc # "load_failed"
        /\ erp_data = ErpEmpty

\* the invoice has an empty or missing tax_id and a numeric amount <= 0
NoTaxIdNonPositive ==
    /\ Get(invoice_data, "tax_id", "") = ""
    /\ "amount" \in DOMAIN invoice_data
    /\ ToFloat(invoice_data["amount"]).ok
    /\ ToFloat(invoice_data["amount"]).v <= 0

\* C14: a validate_invoice call on an invoice with an empty or missing
\* tax_id and an amount <= 0 ends with Field Validator issues that include
\* "Missing required field: tax_id" and "Invoice amount must be positive",
\* with basic_validation.score 0 and with the status rejected.
C14_ScenarioBRejected ==
    (/\ entry = "validate_invoice"
     /\ pc \in {"returned", "raised"}
     /\ NoTaxIdNonPositive) =>
        /\ Has(validation_details.basic_validation.issues,
               "Missing required field: tax_id")
        /\ Has(validation_details.basic_validation.issues,
               "Invoice amount must be positive")
        /\ validation_details.basic_validation.score = 0
        /\ status = "rejected"

\* the invoice of Scenario A against reference data that lists its vendor
\* as approved (credit limit 50000) with an open purchase order of 1500
ScenarioA ==
    /\ invoice_data = [invoice_id |-> "INV-001", vendor_name |-> "Acme Corp",
                       tax_id |-> "12-3456789", amount |-> [num |-> 1500],
                       date |-> "2025-08-03"]
    /\ erp_data = ErpMock

ScenarioAPasses ==
    /\ validation_details.basic_validation.score = 25
    /\ validation_details.erp_validation.score = 30
    /\ validation_details.overall_score >= 80
    /\ validation_details.basic_validation.issues = << >>
    /\ validation_details.erp_validation.issues = << >>

\* the Field Validator read the clock between 2025-08-03 00:00 and 365 days
\* after it
ReadWithinYearOfScenarioA ==
    LET t == ClockInstants[reads[1]]
        day == DayNumber(2025, 8, 3)
    IN  /\ DayOf(t) >= day
        /\ \/ DayOf(t) < day + 365
           \/ (DayOf(t) = day + 365 /\ t.tod = 0)

C16_InvoiceUnchanged == [][invoice_data' = invoice_data]_vars

\* the outcomes in which the generator gives no text
FailureOutcomes == ExplainOutcomes \ {"text"}

\* C17: the explanation process_invoice holds after a failed generator
\* call is the text explain_validation gives for the same invoice, issue
\* list and verdict under every reason of failure: no credentials, client
\* construction failed, request failed, request timed out, response
\* malformed.
C17_FallbackIgnoresCause ==
    (/\ entry = "process_invoice"
     /\ pc \in {"ledger", "assemble", "done"}
     /\ HasVerdict
     /\ explanation # GeneratedText) =>
        \A outcome \in FailureOutcomes :
            explanation = ExplainValidation(invoice_data, issues,
                                            validation_details, outcome)

\* a failed generator call left the template of more than three issues
C17_Witness ==
    /\ pc = "ledger"
    /\ explanation # GeneratedText
    /\ Len(issues) > 3
    /\ Len(CriticalIssues(issues)) = 0

\* process_invoice holds a templated explanation of its verdict
HoldsFallback ==
    /\ entry = "process_invoice"
    /\ pc \in {"ledger", "assemble", "done"}
    /\ HasVerdict
    /\ explanation # GeneratedText

\* the issues a REJECTED template lists
ListedIssues ==
    IF Len(CriticalIssues(issues)) > 0
    THEN "Critical issues detected: " \o Join("; ", CriticalIssues(issues))
             \o "."
    ELSE "Issues: " \o Join("; ", Take(issues, 3))
             \o (IF Len(issues) > 3 THEN "..." ELSE "") \o "."

\* C18: the templated explanation is the APPROVED template exactly when
\* the status is approved and a REJECTED template exactly when the status
\* is rejected; a REJECTED template lists the critical issues when there
\* are any, and otherwise the first 3 issues, followed by "..." exactly
\* when there are more than 3.
C18_FallbackFollowsStatus ==
    HoldsFallback =>
        /\ (status = "approved") <=> Contains(explanation, " APPROVED (Score: ")
        /\ (status = "rejected") <=> Contains(explanation, " REJECTED - ")
        /\ (status = "rejected") => Contains(explanation, ListedIssues)

\* thread w's call is over
Finished(w) == workers[w].pc \in {"returned", "raised"}

\* what thread w's call gave is what the call gives when run alone with
\* the same clock readings
AsAlone(w) ==
    LET f == workers[w]
        n1 == ClockInstants[f.reads[1]]
        n2 == ClockInstants[f.reads[Len(f.reads)]]
        alone == ValidateAlone(f.invoice_data, erp_data, n1, n2)
    IN  /\ f.raised = alone.raised
        /\ f.status = alone.status
        /\ f.issues = alone.issues
        /\ f.validation_details = alone.validation_details

\* a step changes the frame of one thread at most and leaves the reference
\* data as they are
OneFrameOnly ==
    /\ erp_data' = erp_data
    /\ \A w \in Workers :
          workers'[w] # workers[w] =>
              \A v \in Workers \ {w} : workers'[v] = workers[v]

\* C19: with several threads validating through the one validator, in
\* every interleaving each call gives what it gives when run alone, and
\* no step of one call writes the reference data or what another call
\* reads.
C19_NoInterference ==
    /\ [](\A w \in Workers : Finished(w) => AsAlone(w))
    /\ [][OneFrameOnly]_vars

\* two calls on different invoices got their verdicts while the other call
\* was under way
C19_Witness ==
    /\ workers[1].pc = "returned"
    /\ workers[2].pc \in {"contextual", "fraud"}
    /\ Len(workers[1].issues) > 0
    /\ Len(workers[2].issues) > 0
    /\ workers[1].invoice_data # workers[2].invoice_data

\* the i-th reply answers the i-th message: it goes to its sender and
\* carries its invoice_id and the status process_invoice computed for it
ReplyMatches(i) ==
    /\ agent.sent[i].to = agent.received[i].sender
    /\ agent.sent[i].msg.invoice_id = agent.received[i].invoice_id
    /\ agent.sent[i].msg.status = agent.results[i].status

\* never more replies than messages, each reply matching its message
RepliesInStep ==
    /\ Len(agent.sent) <= Len(agent.received)
    /\ \A i \in 1..Len(agent.sent) : ReplyMatches(i)

\* C20: every Invoice message received is answered by exactly one reply,
\* sent to the sender of the message, with its invoice_id and the status
\* process_invoice computed, the status "error" of the error record
\* included.
C20_EveryInvoiceAnswered ==
    /\ []RepliesInStep
    /\ \A i \in 1..MaxMessages :
          (Len(agent.received) >= i) ~> (Len(agent.sent) >= i)

\* two messages answered, one with a verdict and one with the error record
C20_Witness ==
    /\ Len(agent.sent) = 2
    /\ Len(agent.received) = 2
    /\ agent.sent[1].msg.status = "error"
    /\ agent.sent[2].msg.status = "approved_with_conditions"
    /\ agent.sent[1].to # agent.sent[2].to

\* some blacklisted entry has the invoice's vendor name (in any letter case)
\* or the invoice's tax id; a missing key reads as the empty string
BlacklistedEither ==
    \E i \in 1..Len(erp_data.blacklisted_vendors) :
        \/ Lower(erp_data.blacklisted_vendors[i].vendor_name)
              = Lower(Get(invoice_data, "vendor_name", ""))
        \/ erp_data.blacklisted_vendors[i].tax_id
              = Get(invoice_data, "tax_id", "")

\* the Cross-Reference result reports the blacklist issue
ReportsBlacklisted ==
    Has(validation_details.erp_validation.issues,
        "CRITICAL: Vendor is blacklisted in ERP system")

\* the blacklist issue stands alone and neither the approved-vendor lookup
\* nor the purchase-order match has left its entry in the details
BlacklistStandsAlone ==
    /\ validation_details.erp_validation.issues
          = << "CRITICAL: Vendor is blacklisted in ERP system" >>
    /\ DOMAIN validation_details.erp_validation.details = {"blacklisted"}

\* C21: the Cross-Reference stage reports "CRITICAL: Vendor is blacklisted
\* in ERP system" if and only if some blacklisted entry matches the invoice
\* on both the vendor name (case-insensitive) and the tax id; it is then the
\* only issue and neither the approved-vendor lookup nor the purchase-order
\* match runs.
C21_BlacklistIffBoth ==
    ErpResultPresent =>
        /\ ReportsBlacklisted <=> BlacklistedPair
        /\ ReportsBlacklisted => BlacklistStandsAlone

\* C21 amended: the Cross-Reference stage reports the blacklist issue if and
\* only if some blacklisted entry matches the invoice on the vendor name
\* (case-insensitive) or on the tax id; it is then the only issue and
\* neither the approved-vendor lookup nor the purchase-order match runs.
C21_BlacklistIffEither ==
    ErpResultPresent =>
        /\ ReportsBlacklisted <=> BlacklistedEither
        /\ ReportsBlacklisted => BlacklistStandsAlone

\* a Cross-Reference result for an invoice that shares only the tax id of a
\* blacklisted entry
C21_Witness ==
    /\ ErpResultPresent
    /\ BlacklistedEither
    /\ ~BlacklistedPair
    /\ ReportsBlacklisted

\* the approved-vendor entries matching the invoice on name and tax id
MatchedVendors ==
    LET match(v) ==
            /\ Lower(v.vendor_name) = Lower(Get(invoice_data, "vendor_name", ""))
            /\ v.tax_id = Get(invoice_data, "tax_id", "")
    IN  SelectSeq(erp_data.approved_vendors, match)

\* the Cross-Reference result went through the approved-vendor checks
VendorChecksRan ==
    /\ ErpResultPresent
    /\ ~ReportsBlacklisted
    /\ Len(MatchedVendors) > 0

\* C22: when the invoice matches an approved-vendor entry, each of the
\* three checks on the entry is applied: the credit-limit issue exactly when
\* amount > credit_limit, the high-risk warning exactly when risk_level is
\* high, and the status issue exactly when status is not approved, whatever
\* the risk level.
C22_ThreeChecksApplied ==
    VendorChecksRan =>
        LET v == MatchedVendors[1]
            erp_issues == validation_details.erp_validation.issues
        IN  /\ Has(erp_issues, "Invoice amount exceeds vendor credit limit of $"
                                 \o FormatMoneyGrouped(v.credit_limit))
                 <=> ToFloat(Get(invoice_data, "amount", [num |-> 0])).v
                        > v.credit_limit
            /\ Has(erp_issues, "WARNING: High-risk vendor requires additional approval")
                 <=> v.risk_level = "high"
            /\ Has(erp_issues, "Vendor status is '" \o v.status
                                 \o "', not fully approved")
                 <=> v.status # "approved"

FraudResultPresent == validation_details.fraud_detection # EmptyDict

\* the sum of the fraud heuristics other than the exact-midnight test:
\* 3 per keyword in the vendor name, 1 for a multiple of 1000, 2 for an
\* amount over 25000, 1 for a run of three digits in the vendor name, 1 for
\* more than one similar approved vendor
HeuristicSum ==
    LET vendor_name == Lower(Get(invoice_data, "vendor_name", ""))
        amount      == ToFloat(Get(invoice_data, "amount", [num |-> 0])).v
    IN  3 * Len(KeywordHits(vendor_name))
          + (IF amount % 1000 = 0 THEN 1 ELSE 0)
          + (IF amount > 25000 THEN 2 ELSE 0)
          + (IF HasDigitRun(vendor_name) THEN 1 ELSE 0)
          + (IF Len(SimilarVendors(erp_data, vendor_name)) > 1 THEN 1 ELSE 0)

\* the fraud stage score that belongs to a risk score
StageScoreOf(sum) == IF sum < 3 THEN 20 ELSE IF sum < 6 THEN 10 ELSE 0

BasicResultPresent == validation_details.basic_validation # EmptyDict

\* the Field Validator's checks in their fixed order, each with the issue
\* it appends when it fails; the check ran at the first clock reading
FieldChecks ==
    LET t == ClockInstants[reads[1]]
        missing(f) == [fails |-> FieldMissing(invoice_data, f),
                       issue |-> "Missing required field: " \o f]
        amount == AmountIssues(invoice_data)
        date   == DateIssues(invoice_data, t)
    IN  << missing("invoice_id"), missing("vendor_name"), missing("tax_id"),
           missing("amount"), missing("date"),
           [fails |-> Len(amount) > 0,
            issue |-> IF Len(amount) > 0 THEN amount[1] ELSE ""],
           [fails |-> ~MatchInvoiceId(Get(invoice_data, "invoice_id", "")),
            issue |-> "Invalid invoice ID format"],
           [fails |-> ~MatchTaxId(Get(invoice_data, "tax_id", "")),
            issue |-> "Invalid tax ID format (expected XX-XXXXXXX)"],
           [fails |-> Len(date) > 0,
            issue |-> IF Len(date) > 0 THEN date[1] ELSE ""] >>

\* one issue per failing check, in the order of the checks
FailingCheckIssues ==
    LET failing(c) == c.fails
        failed == SelectSeq(FieldChecks, failing)
    IN  [i \in 1..Len(failed) |-> failed[i].issue]

\* C24: the Field Validator evaluates all its checks independently and
\* appends one issue per failing check in the fixed order missing fields
\* (invoice_id, vendor_name, tax_id, amount, date), amount, invoice ID
\* format, tax ID format, date; no failing check suppresses a later one, and
\* the stage score is 25 exactly when the issue list is empty, 0 otherwise.
C24_FieldChecksIndependent ==
    BasicResultPresent =>
        /\ validation_details.basic_validation.issues = FailingCheckIssues
        /\ validation_details.basic_validation.score
              = IF Len(FailingCheckIssues) = 0 THEN 25 ELSE 0

\* a Field Validator result for an empty tax_id, holding the missing-field
\* issue and the format issue of the same field, and an amount issue
C24_Witness ==
    /\ BasicResultPresent
    /\ Has(validation_details.basic_validation.issues,
           "Missing required field: tax_id")
    /\ Has(validation_details.basic_validation.issues,
           "Invalid tax ID format (expected XX-XXXXXXX)")
    /\ Has(validation_details.basic_validation.issues,
           "Invoice amount must be positive")

ContextualResultPresent == validation_details.contextual_validation # EmptyDict

\* the amount or the date of the invoice does not parse
ParseFails ==
    \/ ~ToFloat(Get(invoice_data, "amount", [num |-> 0])).ok
    \/ ~Strptime(Get(invoice_data, "date", "")).ok

\* exactly one issue, the one describing a parse failure
OnlyParseFailure(list) ==
    /\ Len(list) = 1
    /\ Len(list[1]) > Len("Contextual validation failed: ")
    /\ SubSeq(list[1], 1, Len("Contextual validation failed: "))
          = "Contextual validation failed: "

\* C25: when the amount or the date does not parse inside the Contextual
\* Validator, the stage returns exactly one issue describing the failure and
\* none of the heuristic issues, so its stage score is 10; this holds of the
\* validator applied to the invoice at any clock reading and of the stage
\* result recorded in validation_details.
C25_ParseFailureSingleIssue ==
    ParseFails =>
        /\ OnlyParseFailure(ContextualValidation(invoice_data, now))
        /\ ContextualScore(ContextualValidation(invoice_data, now)) = 10
        /\ ContextualResultPresent =>
              /\ OnlyParseFailure(validation_details.contextual_validation.issues)
              /\ validation_details.contextual_validation.score = 10

\* a Contextual result for a date that does not parse and an invoice
\* without invoice_id, whose short-ID heuristic would otherwise fire
C25_Witness ==
    /\ ContextualResultPresent
    /\ ~Strptime(Get(invoice_data, "date", "")).ok
    /\ "invoice_id" \notin DOMAIN invoice_data
    /\ validation_details.contextual_validation.score = 10

\* the positions of a step name in the trace of the run
Positions(name) == {i \in 1..Len(trace) : trace[i] = name}

\* every occurrence of the step later is preceded by one of the step earlier
Precedes(earlier, later) ==
    \A i \in Positions(later) : \E j \in Positions(earlier) : j < i

\* the process_invoice call is over
ProcessOver == entry = "process_invoice" /\ pc \in {"done", "raised"}

\* C26: within one process_invoice run the verdict is computed first, then
\* the explanation is generated, then the ledger is called, never before the
\* verdict is final; and the ledger submission is attempted exactly once
\* for every invoice submitted, whatever its status.
C26_OrderAndLedgerOnce ==
    /\ Precedes("verdict", "explain")
    /\ Precedes("explain", "ledger")
    /\ Len(submitted) > 0 => submitted[Len(submitted)].status = status
    /\ ProcessOver =>
          /\ Cardinality(Positions("ledger")) = 1
          /\ Len(submitted) = 1

\* no step of the run is taken a second time
NoStepRepeated ==
    \A i, j \in 1..Len(trace) : trace[i] = trace[j] => i = j

\* C27: process_invoice terminates without retry loops: no step of a run
\* is repeated; per invoice at most one request goes to the external
\* explanation generator and at most one store call to the ledger, followed
\* by at most one verification query made only after a successful store; a
\* failed call is never repeated.
C27_NoRetries ==
    entry = "process_invoice" =>
        /\ NoStepRepeated
        /\ io.requests <= 1
        /\ io.stores <= 1
        /\ io.queries <= 1
        /\ io.queries = 1 =>
              /\ io.stores = 1
              /\ blockchain_result # None
              /\ blockchain_result.success
        /\ ProcessOver => Cardinality(Positions("explain")) <= 1

\* a finished run whose one request to the explanation generator failed
\* and whose one store call failed
C27_Witness ==
    /\ ProcessOver
    /\ io = [requests |-> 1, stores |-> 1, queries |-> 0]
    /\ explanation # GeneratedText
    /\ ~blockchain_result.success

\* the amount of the invoice is above the critical threshold
AmountOverThreshold ==
    LET amount == ToFloat(Get(invoice_data, "amount", [num |-> 0]))
    IN  amount.ok /\ amount.v > 100000

\* C28: a verdict that contains a critical issue is rejected whatever its
\* score: every verdict for an amount over 100000 and every verdict for an
\* invoice reported as blacklisted has status rejected, also when
\* overall_score is 60 or more.
C28_CriticalIsRejected ==
    HasVerdict =>
        /\ ~NoCriticalIn(StageIssues) => status = "rejected"
        /\ AmountOverThreshold =>
              /\ Has(StageIssues, "CRITICAL: Invoice amount exceeds $100,000 threshold")
              /\ status = "rejected"
        /\ ReportsBlacklisted => status = "rejected"
        /\ BlacklistedEither => status = "rejected"

\* a verdict for a blacklisted vendor with overall_score 80, rejected for
\* its critical issue alone
C28_Witness ==
    /\ HasVerdict
    /\ ReportsBlacklisted
    /\ validation_details.overall_score = 80
    /\ status = "rejected"

\* C29: in every verdict the status is approved if and only if the
\* combined issue list is empty, and every approved verdict has
\* overall_score exactly 100; a verdict with overall_score 100 that carries
\* issues is approved_with_conditions.
C29_ApprovedIffNoIssues ==
    HasVerdict =>
        /\ issues = StageIssues
        /\ (status = "approved") <=> (Len(issues) = 0)
        /\ status = "approved" => validation_details.overall_score = 100
        /\ (validation_details.overall_score = 100 /\ Len(issues) > 0) =>
              status = "approved_with_conditions"

\* a verdict with overall_score 100 that carries an issue of the fraud
\* stage and is approved with conditions
C29_Witness ==
    /\ HasVerdict
    /\ validation_details.overall_score = 100
    /\ Len(validation_details.fraud_detection.issues) > 0
    /\ status = "approved_with_conditions"

\* the audit record the run handed to the ledger
LastSubmitted == submitted[Len(submitted)]

\* C30: the ledger and the caller see the same outcome: whenever
\* process_invoice has submitted an audit record for an invoice, the status
\* and score it then returns equal the status and validation score of that
\* record, for every input mapping, one without an invoice_id key included.
C30_LedgerAndCallerAgree ==
    (entry = "process_invoice" /\ pc = "done" /\ Len(submitted) > 0) =>
        /\ result.status = LastSubmitted.status
        /\ result.score = LastSubmitted.validation_score

====
